---------------------------- MODULE Spec2Model ----------------------------
(***************************************************************************)
(* Model of wayland-client-from-scratch: the wire codec (integers,         *)
(* protocol strings, message envelope), the stream demultiplexer           *)
(* WlMessageIter, the (object id, opcode) dispatch and the get_registry    *)
(* bootstrap driver.                                                       *)
(*                                                                         *)
(* Bytes are the integers 0..255 and byte buffers are sequences of them.   *)
(* "Native endian" is modelled as little endian (x86_64 / aarch64 Linux).  *)
(* usize is 64 bits wide, so no usize addition below can overflow; the     *)
(* u16 cast in WlMessage::new keeps its width.  The u32 values drawn stay  *)
(* below 2^31, the largest integer the model checker represents.           *)
(***************************************************************************)
EXTENDS Integers, Sequences, FiniteSets, TLC

VARIABLES
    pc,            \* position of get_registry: Idle, AwaitingResponse, Draining, Done, Failed, Panicked
    new_id,        \* the new_id argument of get_registry
    incoming,      \* bytes the compositor sends that the client has not read yet
    sent,          \* bytes the transport accepted from stream.write
    buffer,        \* WlMessageIter::buffer
    prev_buffer,   \* WlMessageIter::buffer as it was before the last call of next()
    last,          \* what the last call of next() returned
    dispatched,    \* log of the messages the drain loop handed to dispatch, in order
    result,        \* what get_registry returned (or that it panicked)
    feed_src,      \* feed harness: the encoded message fed byte by byte
    fed,           \* feed harness: number of bytes appended so far
    yielded,       \* feed harness: number of messages next() has returned so far
    codec_in,      \* codec harness: the input drawn
    codec_wire,    \* codec harness: the bytes produced by encoding
    codec_out,     \* codec harness: the result of decoding
    codec_step     \* codec harness: drawn, encoded, decoded

drvVars   == <<pc, new_id, incoming, sent, buffer, prev_buffer, last, dispatched, result>>
feedVars  == <<feed_src, fed, yielded>>
codecVars == <<codec_in, codec_wire, codec_out, codec_step>>
vars      == <<pc, new_id, incoming, sent, buffer, prev_buffer, last, dispatched, result,
               feed_src, fed, yielded, codec_in, codec_wire, codec_out, codec_step>>

---------------------------------------------------------------------------
(* Bounds of the model *)

\* longest compositor stream, in messages
MaxMsgs == 2
\* longest text drawn for the protocol string codec
MaxTextLen == 3
\* largest length prefix drawn for a wire buffer handed to a decoder
MaxWirePrefix == 5
\* most bytes drawn to follow the length prefix of such a wire buffer
MaxWireRest == 5
\* longest content drawn for the protocol array codec
MaxArrayLen == 5
\* longest small payload drawn for the envelope codec
MaxPayloadLen == 2
\* largest size handed to the alignment helper
MaxAlignArg == 24

---------------------------------------------------------------------------
(* Results and integers on the wire *)

Ok(v)  == [ok |-> TRUE,  err |-> "",  val |-> v]
Err(e) == [ok |-> FALSE, err |-> e,   val |-> <<>>]

Min(a, b) == IF a < b THEN a ELSE b

\* buf[from..to) with Rust's zero-based, half-open bounds
Slice(buf, from, to) == SubSeq(buf, from + 1, to)

u16_to_ne_bytes(v) == <<v % 256, (v \div 256) % 256>>
u32_to_ne_bytes(v) == <<v % 256, (v \div 256) % 256, (v \div 65536) % 256, (v \div 16777216) % 256>>
u16_from_ne_bytes(b) == b[1] + 256 * b[2]
u32_from_ne_bytes(b) == b[1] + 256 * b[2] + 65536 * b[3] + 16777216 * b[4]

\* The helper with 4 added instead of 3: an aligned size moves to the next multiple
roundup_4_adds_four(number) == (number + 4) - ((number + 4) % 4)

\* (number + 3) & !3 : clear the two low bits of number + 3
roundup_4(number) == (number + 3) - ((number + 3) % 4)

---------------------------------------------------------------------------
(* Message envelope: protocol/message.rs *)

WL_MESSAGE_HEADER_LEN == 8

U16_MODULUS == 65536

WlMessageHeader_message_len(header) == header.size

\* The header written with size before opcode (the order the doc comment of
\* WL_MESSAGE_HEADER_LEN gives)
WlMessageHeader_into_bytes_size_first(header) ==
    u32_to_ne_bytes(header.object_id) \o u16_to_ne_bytes(header.size)
        \o u16_to_ne_bytes(header.opcode)

\* From<WlMessageHeader> for Vec<u8>
WlMessageHeader_into_bytes(header) ==
    u32_to_ne_bytes(header.object_id) \o u16_to_ne_bytes(header.opcode)
        \o u16_to_ne_bytes(header.size)

\* TryFrom<&[u8]> for WlMessageHeader
WlMessageHeader_try_from(buf) ==
    IF Len(buf) < WL_MESSAGE_HEADER_LEN
    THEN Err("TruncatedBuffer")
    ELSE Ok([object_id |-> u32_from_ne_bytes(Slice(buf, 0, 4)),
             opcode    |-> u16_from_ne_bytes(Slice(buf, 4, 6)),
             size      |-> u16_from_ne_bytes(Slice(buf, 6, 8))])

\* WlMessage::new : the size is cast to u16, which wraps
WlMessage_new(object_id, opcode, data) ==
    [header |-> [object_id |-> object_id,
                 opcode    |-> opcode,
                 size      |-> (Len(data) + WL_MESSAGE_HEADER_LEN) % U16_MODULUS],
     data   |-> data]

\* From<WlMessage> for Vec<u8>
WlMessage_into_bytes(msg) == WlMessageHeader_into_bytes(msg.header) \o msg.data

\* TryFrom<&[u8]> for WlMessage : the payload is everything after the header
WlMessage_try_from(buf) ==
    IF Len(buf) < WL_MESSAGE_HEADER_LEN
    THEN Err("TruncatedBuffer")
    ELSE LET header == WlMessageHeader_try_from(Slice(buf, 0, WL_MESSAGE_HEADER_LEN)).val
         IN  IF Len(buf) < WlMessageHeader_message_len(header)
             THEN Err("TruncatedBuffer")
             ELSE Ok([header |-> header,
                      data   |-> Slice(buf, WL_MESSAGE_HEADER_LEN, Len(buf))])

NoMessage == [header |-> [object_id |-> 0, opcode |-> 0, size |-> 0], data |-> <<>>]

IterNone       == [some |-> FALSE, msg |-> NoMessage, buffer |-> <<>>]
IterSome(m, b) == [some |-> TRUE,  msg |-> m,         buffer |-> b]

\* WlMessageIter::next with the buffer cleared on success as on every other path
WlMessageIter_next_clears(buf) ==
    IF Len(buf) < WL_MESSAGE_HEADER_LEN
    THEN IterNone
    ELSE LET header == WlMessageHeader_try_from(Slice(buf, 0, WL_MESSAGE_HEADER_LEN)).val
             mlen   == WlMessageHeader_message_len(header)
         IN  IF Len(buf) < mlen
             THEN IterNone
             ELSE LET r == WlMessage_try_from(Slice(buf, 0, mlen))
                  IN  IF r.ok THEN IterSome(r.val, <<>>) ELSE IterNone

\* WlMessageIter::next that also waits when the buffer holds exactly the declared length
WlMessageIter_next_strict(buf) ==
    IF Len(buf) < WL_MESSAGE_HEADER_LEN
    THEN IterNone
    ELSE LET header == WlMessageHeader_try_from(Slice(buf, 0, WL_MESSAGE_HEADER_LEN)).val
             mlen   == WlMessageHeader_message_len(header)
         IN  IF Len(buf) <= mlen
             THEN IterNone
             ELSE LET r == WlMessage_try_from(Slice(buf, 0, mlen))
                  IN  IF r.ok
                      THEN IterSome(r.val, Slice(buf, mlen, Len(buf)))
                      ELSE IterNone

\* WlMessageIter::next that leaves the buffer alone when it has too little to go on
WlMessageIter_next_retains(buf) ==
    IF Len(buf) < WL_MESSAGE_HEADER_LEN
    THEN [some |-> FALSE, msg |-> NoMessage, buffer |-> buf]
    ELSE LET header == WlMessageHeader_try_from(Slice(buf, 0, WL_MESSAGE_HEADER_LEN)).val
             mlen   == WlMessageHeader_message_len(header)
         IN  IF Len(buf) < mlen
             THEN [some |-> FALSE, msg |-> NoMessage, buffer |-> buf]
             ELSE LET r == WlMessage_try_from(Slice(buf, 0, mlen))
                  IN  IF r.ok
                      THEN IterSome(r.val, Slice(buf, mlen, Len(buf)))
                      ELSE IterNone

\* WlMessageIter::next that trusts the declared length: no validation of the slice
WlMessageIter_next_accepts_short(buf) ==
    IF Len(buf) < WL_MESSAGE_HEADER_LEN
    THEN IterNone
    ELSE LET header == WlMessageHeader_try_from(Slice(buf, 0, WL_MESSAGE_HEADER_LEN)).val
             mlen   == WlMessageHeader_message_len(header)
         IN  IF Len(buf) < mlen
             THEN IterNone
             ELSE IterSome([header |-> header,
                            data   |-> Slice(buf, WL_MESSAGE_HEADER_LEN, mlen)],
                           Slice(buf, mlen, Len(buf)))

\* WlMessageIter::next that hands the whole buffer to WlMessage::try_from
WlMessageIter_next_whole_buffer(buf) ==
    IF Len(buf) < WL_MESSAGE_HEADER_LEN
    THEN IterNone
    ELSE LET header == WlMessageHeader_try_from(Slice(buf, 0, WL_MESSAGE_HEADER_LEN)).val
             mlen   == WlMessageHeader_message_len(header)
         IN  IF Len(buf) < mlen
             THEN IterNone
             ELSE LET r == WlMessage_try_from(buf)
                  IN  IF r.ok /\ mlen >= WL_MESSAGE_HEADER_LEN
                      THEN IterSome(r.val, Slice(buf, mlen, Len(buf)))
                      ELSE IterNone

\* WlMessageIter::next : the returned Option and the buffer it leaves behind
WlMessageIter_next(buf) ==
    IF Len(buf) < WL_MESSAGE_HEADER_LEN
    THEN IterNone                                   \* self.buffer.clear()
    ELSE LET header == WlMessageHeader_try_from(Slice(buf, 0, WL_MESSAGE_HEADER_LEN)).val
             mlen   == WlMessageHeader_message_len(header)
         IN  IF Len(buf) < mlen
             THEN IterNone                          \* self.buffer.clear()
             ELSE LET r == WlMessage_try_from(Slice(buf, 0, mlen))
                  IN  IF r.ok
                      THEN IterSome(r.val, Slice(buf, mlen, Len(buf)))   \* drain(..mlen)
                      ELSE IterNone                 \* self.buffer.clear()

---------------------------------------------------------------------------
(* Protocol string: protocol/types/wlstring.rs *)

WL_STRING_PREFIX_LEN == 4
WL_NUL == 0

\* From<String> for WlString
WlString_from(s) == [len |-> Len(s), data |-> s]

WlString_buffer_len(wls) == 4 + wls.len

\* From<WlString> for Vec<u8>
WlString_into_bytes(wls) ==
    LET unpadded == u32_to_ne_bytes(wls.len) \o wls.data \o <<WL_NUL>>
        padded_len == roundup_4(Len(unpadded))
    IN  unpadded \o [i \in 1..(padded_len - Len(unpadded)) |-> 0]

\* The search for the terminator done from the end of the section (rposition)
NulPosition_last(section) ==
    IF \E i \in 1..Len(section) : section[i] = WL_NUL
    THEN (CHOOSE i \in 1..Len(section) :
              /\ section[i] = WL_NUL
              /\ \A j \in (i + 1)..Len(section) : section[j] # WL_NUL) - 1
    ELSE -1

\* content_section.iter().position(|&x| x == WL_NUL): zero-based, -1 for None
NulPosition(section) ==
    IF \E i \in 1..Len(section) : section[i] = WL_NUL
    THEN (CHOOSE i \in 1..Len(section) :
              /\ section[i] = WL_NUL
              /\ \A j \in 1..(i - 1) : section[j] # WL_NUL) - 1
    ELSE -1

\* TryFrom<&[u8]> for WlString that keeps the whole content section once it
\* has seen a terminator in it
WlString_try_from_keeps_section(buf) ==
    IF Len(buf) < WL_STRING_PREFIX_LEN
    THEN Err("TruncatedBuffer")
    ELSE LET total_content_len == u32_from_ne_bytes(Slice(buf, 0, WL_STRING_PREFIX_LEN))
             buffer_len == WL_STRING_PREFIX_LEN + total_content_len
         IN  IF Len(buf) < buffer_len
             THEN Err("TruncatedBuffer")
             ELSE LET content_section == Slice(buf, WL_STRING_PREFIX_LEN, buffer_len)
                  IN  IF NulPosition(content_section) >= 0
                      THEN Ok([len |-> total_content_len, data |-> content_section])
                      ELSE Err("MissingTerminator")

\* TryFrom<&[u8]> for WlString
WlString_try_from(buf) ==
    IF Len(buf) < WL_STRING_PREFIX_LEN
    THEN Err("TruncatedBuffer")
    ELSE LET total_content_len == u32_from_ne_bytes(Slice(buf, 0, WL_STRING_PREFIX_LEN))
             buffer_len == WL_STRING_PREFIX_LEN + total_content_len
         IN  IF Len(buf) < buffer_len
             THEN Err("TruncatedBuffer")
             ELSE LET content_section == Slice(buf, WL_STRING_PREFIX_LEN, buffer_len)
                      null_pos == NulPosition(content_section)
                  IN  IF null_pos >= 0
                      THEN Ok([len  |-> total_content_len,
                               data |-> Slice(content_section, 0, null_pos)])
                      ELSE Err("MissingTerminator")

---------------------------------------------------------------------------
(* Protocol array: protocol/types/wlarray.rs *)

WL_ARRAY_PREFIX_LEN == 4

\* WlArray::new without the resize to the padded size
WlArray_new_unpadded(content) == [size |-> Len(content), data |-> content]

\* WlArray::new : data is the content resized with zeros to roundup_4 of its length
WlArray_new(content) ==
    LET padded_size == roundup_4(Len(content))
    IN  [size |-> Len(content),
         data |-> content \o [i \in 1..(padded_size - Len(content)) |-> 0]]

\* buffer_size computed from the content size instead of the padded data
WlArray_buffer_size_unpadded(array) == WL_ARRAY_PREFIX_LEN + array.size

\* WlArray::buffer_size
WlArray_buffer_size(array) == WL_ARRAY_PREFIX_LEN + Len(array.data)

\* WlArray::as_slice : &self.data[..self.size]
WlArray_as_slice(array) == Slice(array.data, 0, array.size)

\* From<WlArray> for Vec<u8>
WlArray_into_bytes(array) == u32_to_ne_bytes(array.size) \o array.data

\* TryFrom<&[u8]> for WlArray that keeps only the content_len bytes of content
WlArray_try_from_unpadded(buf) ==
    IF Len(buf) < WL_ARRAY_PREFIX_LEN
    THEN Err("TruncatedBuffer")
    ELSE LET content_len == u32_from_ne_bytes(Slice(buf, 0, WL_ARRAY_PREFIX_LEN))
             total_buffer_len == WL_ARRAY_PREFIX_LEN + content_len
         IN  IF Len(buf) < total_buffer_len
             THEN Err("TruncatedBuffer")
             ELSE Ok([size |-> content_len,
                      data |-> Slice(buf, WL_ARRAY_PREFIX_LEN, total_buffer_len)])

\* TryFrom<&[u8]> for WlArray
WlArray_try_from(buf) ==
    IF Len(buf) < WL_ARRAY_PREFIX_LEN
    THEN Err("TruncatedBuffer")
    ELSE LET content_len == u32_from_ne_bytes(Slice(buf, 0, WL_ARRAY_PREFIX_LEN))
             padded_len == roundup_4(content_len)
             total_buffer_len == WL_ARRAY_PREFIX_LEN + padded_len
         IN  IF Len(buf) < total_buffer_len
             THEN Err("TruncatedBuffer")
             ELSE Ok([size |-> content_len,
                      data |-> Slice(buf, WL_ARRAY_PREFIX_LEN, total_buffer_len)])

---------------------------------------------------------------------------
(* Object namespace: protocol/mod.rs *)

WlObjectId_Display  == 1
WlObjectId_Registry == 2
WlObjectId_Fixes    == 23

\* The id decoder with the enumeration starting at 0
WlObjectId_try_from_zero_based(value) ==
    IF value \in 0..WlObjectId_Fixes
    THEN Ok(value)
    ELSE Err("UnroutableObject")

\* TryFrom<u32> for WlObjectId : the 23 enumerated ids, anything else is an error
WlObjectId_try_from(value) ==
    IF value \in WlObjectId_Display..WlObjectId_Fixes
    THEN Ok(value)
    ELSE Err("UnroutableObject")

---------------------------------------------------------------------------
(* Root session (wl_display) events: protocol/display/event *)

\* The opcode decoder with a catch-all arm that falls into DeleteId
DisplayEvent_try_from_catch_all(value) ==
    CASE value = 0 -> Ok("Error")
      [] OTHER     -> Ok("DeleteId")

\* TryFrom<u16> for display::event::Event
DisplayEvent_try_from(value) ==
    CASE value = 0 -> Ok("Error")
      [] value = 1 -> Ok("DeleteId")
      [] OTHER     -> Err("InvalidOpcode")

\* TryFrom<u32> for WlDisplayErrorId
WlDisplayErrorId_try_from(value) ==
    CASE value = 0 -> Ok("InvalidObject")
      [] value = 1 -> Ok("InvalidMethod")
      [] value = 2 -> Ok("NoMemory")
      [] value = 3 -> Ok("ImplementationError")
      [] OTHER     -> Err("InvalidEnumValue")

WL_DISPLAY_ERROR_OBJECT_LEN == 4
WL_DISPLAY_ERROR_CODE_LEN == 4

\* TryFrom<&[u8]> for WlDisplayError : code_raw is read from buf[0..4]
WlDisplayError_try_from(buf) ==
    IF Len(buf) < WL_DISPLAY_ERROR_OBJECT_LEN
    THEN Err("TruncatedBuffer")
    ELSE
    LET object_id == u32_from_ne_bytes(Slice(buf, 0, 4))
        code_start_pos == WL_DISPLAY_ERROR_OBJECT_LEN
    IN  IF Len(buf) < code_start_pos + WL_DISPLAY_ERROR_CODE_LEN
        THEN Err("TruncatedBuffer")
        ELSE
        LET code_raw == u32_from_ne_bytes(Slice(buf, 0, 4))
            code == WlDisplayErrorId_try_from(code_raw)
            message_start_pos == code_start_pos + WL_DISPLAY_ERROR_CODE_LEN
        IN  IF ~code.ok
            THEN Err(code.err)
            ELSE LET message == WlString_try_from(Slice(buf, message_start_pos, Len(buf)))
                 IN  IF ~message.ok
                     THEN Err(message.err)
                     ELSE Ok([object_id |-> object_id,
                              code      |-> code.val,
                              message   |-> message.val])

\* handle_wl_display_error that logs a decoded error and returns Ok(())
handle_wl_display_error_logs_only(buf) ==
    LET error == WlDisplayError_try_from(buf)
    IN  IF ~error.ok THEN Err(error.err) ELSE Ok(error.val)

\* handle_wl_display_error : an error whatever the payload
handle_wl_display_error(buf) ==
    LET error == WlDisplayError_try_from(buf)
    IN  IF ~error.ok THEN Err(error.err) ELSE Err("ProtocolFatal")

\* delete_id::handle_wl_display_delete_id : decodes { id: u32 } and surfaces it
handle_wl_display_delete_id(buf) ==
    IF Len(buf) < 4 THEN Err("TruncatedBuffer") ELSE Ok(u32_from_ne_bytes(Slice(buf, 0, 4)))

\* What a dispatch did: the handler it invoked (if any) and how it ended
Outcome(handler, r) ==
    [handler |-> handler, kind |-> IF r.ok THEN "Ok" ELSE "Err", err |-> r.err]

\* handle_wl_display_event
handle_wl_display_event(msg) ==
    LET event_code == DisplayEvent_try_from(msg.header.opcode)
    IN  IF ~event_code.ok
        THEN Outcome("none", Err(event_code.err))
        ELSE IF event_code.val = "Error"
             THEN Outcome("wl_display_error", handle_wl_display_error(msg.data))
             ELSE Outcome("wl_display_delete_id", handle_wl_display_delete_id(msg.data))

---------------------------------------------------------------------------
(* Registry (wl_registry) events: protocol/registry/event *)

\* TryFrom<u16> for registry::event::Event
RegistryEvent_try_from(value) ==
    CASE value = 0 -> Ok("Global")
      [] value = 1 -> Ok("GlobalRemove")
      [] OTHER     -> Err("InvalidOpcode")

WL_REGISTRY_GLOBAL_NAME_LEN == 4
WL_REGISTRY_GLOBAL_VERSION_LEN == 4

\* TryFrom<&[u8]> for WlRegistryGlobal
WlRegistryGlobal_try_from(buf) ==
    IF Len(buf) < WL_REGISTRY_GLOBAL_NAME_LEN
    THEN Err("TruncatedBuffer")
    ELSE
    LET name == u32_from_ne_bytes(Slice(buf, 0, 4))
        interface_start_pos == WL_REGISTRY_GLOBAL_NAME_LEN
        interface == WlString_try_from(Slice(buf, interface_start_pos, Len(buf)))
    IN  IF ~interface.ok
        THEN Err(interface.err)
        ELSE
        LET version_start_pos == interface_start_pos + WlString_buffer_len(interface.val)
        IN  IF Len(buf) < version_start_pos + WL_REGISTRY_GLOBAL_VERSION_LEN
            THEN Err("TruncatedBuffer")
            ELSE Ok([name      |-> name,
                     interface |-> interface.val,
                     version   |-> u32_from_ne_bytes(
                                       Slice(buf, version_start_pos,
                                             version_start_pos + WL_REGISTRY_GLOBAL_VERSION_LEN))])

\* handle_wl_registry_global
handle_wl_registry_global(buf) ==
    LET global == WlRegistryGlobal_try_from(buf)
    IN  IF ~global.ok THEN Err(global.err) ELSE Ok(global.val)

\* global_remove::handle_wl_registry_global_remove : decodes { name: u32 } and surfaces it
handle_wl_registry_global_remove(buf) ==
    IF Len(buf) < 4 THEN Err("TruncatedBuffer") ELSE Ok(u32_from_ne_bytes(Slice(buf, 0, 4)))

\* handle_wl_registry_event
handle_wl_registry_event(msg) ==
    LET event_code == RegistryEvent_try_from(msg.header.opcode)
    IN  IF ~event_code.ok
        THEN Outcome("none", Err(event_code.err))
        ELSE IF event_code.val = "Global"
             THEN Outcome("wl_registry_global", handle_wl_registry_global(msg.data))
             ELSE Outcome("wl_registry_global_remove",
                          handle_wl_registry_global_remove(msg.data))

---------------------------------------------------------------------------
(* Dispatch of one extracted event: the body of the loop in get_registry *)

\* The match on event_object with both known objects routed to the display handlers
Dispatch_display_only(event) ==
    LET event_object == WlObjectId_try_from(event.header.object_id)
    IN  IF ~event_object.ok
        THEN Outcome("none", Err(event_object.err))
        ELSE CASE event_object.val = WlObjectId_Display  -> handle_wl_display_event(event)
               [] event_object.val = WlObjectId_Registry -> handle_wl_display_event(event)
               [] OTHER -> [handler |-> "none", kind |-> "Panic", err |-> "unimplemented"]

\* The dispatch with a table of the messages seen: a message seen before is refused
Dispatch_refuses_repeats(event) ==
    LET event_object == WlObjectId_try_from(event.header.object_id)
        seen == \E i \in 1..Len(dispatched) :
                    /\ dispatched[i].object_id = event.header.object_id
                    /\ dispatched[i].opcode = event.header.opcode
                    /\ dispatched[i].data = event.data
    IN  IF ~event_object.ok
        THEN Outcome("none", Err(event_object.err))
        ELSE IF seen
        THEN Outcome("none", Err("ProtocolFatal"))
        ELSE CASE event_object.val = WlObjectId_Display  -> handle_wl_display_event(event)
               [] event_object.val = WlObjectId_Registry -> handle_wl_registry_event(event)
               [] OTHER -> [handler |-> "none", kind |-> "Panic", err |-> "unimplemented"]

\* event.header.object_id.try_into()? followed by the match on event_object
Dispatch(event) ==
    LET event_object == WlObjectId_try_from(event.header.object_id)
    IN  IF ~event_object.ok
        THEN Outcome("none", Err(event_object.err))
        ELSE CASE event_object.val = WlObjectId_Display  -> handle_wl_display_event(event)
               [] event_object.val = WlObjectId_Registry -> handle_wl_registry_event(event)
               [] OTHER -> [handler |-> "none", kind |-> "Panic", err |-> "unimplemented"]

---------------------------------------------------------------------------
(* What the anyhow error of a failed dispatch carries: the decoded values    *)
(* its message text interpolates (a field is <<v>> when present, <<>> if not) *)

NoContext == [object_id |-> <<>>, opcode |-> <<>>, record |-> <<>>]

\* anyhow!("WlObjectID: Invalid id")
WlObjectId_try_from_context(value) == NoContext

\* anyhow!("Invalid wl_display event opcode: {}", value)
DisplayEvent_try_from_context(value) == [NoContext EXCEPT !.opcode = <<value>>]

\* anyhow!("Invalid wl_registry event opcode: {}", value)
RegistryEvent_try_from_context(value) == [NoContext EXCEPT !.opcode = <<value>>]

\* anyhow!("Fatal Wayland protocol error: {}", error); a payload that does not
\* decode gives the decoder's text, which holds buffer lengths or the raw code
handle_wl_display_error_context(buf) ==
    LET error == WlDisplayError_try_from(buf)
    IN  IF error.ok THEN [NoContext EXCEPT !.record = <<error.val>>] ELSE NoContext

\* The context of the error Dispatch(event) ends in, NoContext when it does not
DispatchErrorContext(event) ==
    LET event_object == WlObjectId_try_from(event.header.object_id)
    IN  IF ~event_object.ok
        THEN WlObjectId_try_from_context(event.header.object_id)
        ELSE CASE event_object.val = WlObjectId_Display ->
                      IF ~DisplayEvent_try_from(event.header.opcode).ok
                      THEN DisplayEvent_try_from_context(event.header.opcode)
                      ELSE IF DisplayEvent_try_from(event.header.opcode).val = "Error"
                           THEN handle_wl_display_error_context(event.data)
                           ELSE NoContext
               [] event_object.val = WlObjectId_Registry ->
                      IF ~RegistryEvent_try_from(event.header.opcode).ok
                      THEN RegistryEvent_try_from_context(event.header.opcode)
                      ELSE NoContext
               [] OTHER -> NoContext

---------------------------------------------------------------------------
(* The compositor's side of the transport: the events it may send *)

\* A protocol string as the compositor writes it: prefix counts the terminator
ServerString(s) ==
    LET unpadded == s \o <<0>>
    IN  u32_to_ne_bytes(Len(unpadded)) \o unpadded
            \o [i \in 1..(roundup_4(Len(unpadded)) - Len(unpadded)) |-> 0]

\* A frame with the header fields given, whatever they are
Frame(object_id, opcode, size, payload) ==
    u32_to_ne_bytes(object_id) \o u16_to_ne_bytes(opcode) \o u16_to_ne_bytes(size) \o payload

\* A well-formed event: the length field is header plus payload
Event(object_id, opcode, payload) ==
    Frame(object_id, opcode, WL_MESSAGE_HEADER_LEN + Len(payload), payload)

EventCatalogue ==
    { Event(2, 0, u32_to_ne_bytes(1) \o ServerString(<<97, 98>>) \o u32_to_ne_bytes(4)),
      Event(2, 1, u32_to_ne_bytes(1)),
      Event(1, 1, u32_to_ne_bytes(3)),
      Event(1, 0, u32_to_ne_bytes(2) \o u32_to_ne_bytes(1) \o ServerString(<<101>>)),
      Event(1, 0, u32_to_ne_bytes(7) \o u32_to_ne_bytes(2) \o ServerString(<<101>>)),
      Event(1, 0, u32_to_ne_bytes(1) \o u32_to_ne_bytes(1) \o <<2, 0, 0, 0, 101, 101, 101, 101>>),
      Event(1, 0, <<>>),
      Event(1, 7, <<>>),
      Event(2, 2, u32_to_ne_bytes(1)),
      Event(3, 0, u32_to_ne_bytes(0)),
      Event(0, 0, <<>>),
      Event(24, 1, <<>>),
      Frame(2, 1, 4, <<>>) }

RECURSIVE StreamsOf(_)
StreamsOf(n) ==
    IF n = 0 THEN { <<>> }
    ELSE LET shorter == StreamsOf(n - 1)
         IN  shorter \cup { s \o e : s \in shorter, e \in EventCatalogue }

\* Every stream of at most MaxMsgs catalogue events
Streams == StreamsOf(MaxMsgs)

\* The new_id values get_registry is called with (main passes 1)
NewIds == {1, 2}

---------------------------------------------------------------------------
(* get_registry: protocol/display/request.rs *)

Opcode_GetRegistry == 1

READ_BUF_LEN == 4096

\* WlNewId::to_bytes : the 32-bit id in native byte order, exactly its width
WlNewId_to_bytes(id) == u32_to_ne_bytes(id)

\* wl_request_param! RequestParam { new_id: WlNewId } : From<RequestParam> for Vec<u8>
RequestParam_into_bytes(id) == WlNewId_to_bytes(id)

\* The request built with the opcode of Sync (0) instead of GetRegistry
GetRegistryRequest_sync_opcode(id) ==
    WlMessage_into_bytes(WlMessage_new(WlObjectId_Display, 0, RequestParam_into_bytes(id)))

\* The serialized request handed to stream.write
GetRegistryRequest(id) ==
    WlMessage_into_bytes(
        WlMessage_new(WlObjectId_Display, Opcode_GetRegistry, RequestParam_into_bytes(id)))

NoResult == [kind |-> "none", err |-> ""]
NoLast   == [some |-> FALSE, called |-> FALSE, msg |-> NoMessage]

FeedIdle  == feed_src = <<>> /\ fed = 0 /\ yielded = 0
NoCodecIn == [kind |-> "none", object_id |-> 0, opcode |-> 0, bytes |-> <<>>, trailing |-> <<>>]
CodecIdle == codec_in = NoCodecIn /\ codec_wire = <<>> /\ codec_out = Err("") /\ codec_step = "idle"

Init ==
    /\ pc = "Idle"
    /\ new_id \in NewIds
    /\ incoming \in Streams
    /\ sent = <<>>
    /\ buffer = <<>>
    /\ prev_buffer = <<>>
    /\ last = NoLast
    /\ dispatched = <<>>
    /\ result = NoResult
    /\ FeedIdle
    /\ CodecIdle

\* stream.write(&write_buf)? fails with an I/O error
WriteIoError ==
    /\ pc = "Idle"
    /\ pc' = "Failed"
    /\ result' = [kind |-> "Err", err |-> "Io"]
    /\ UNCHANGED <<new_id, incoming, sent, buffer, prev_buffer, last, dispatched>>
    /\ UNCHANGED <<feedVars, codecVars>>

\* The write without the comparison of written_len with the request's length
WriteRequest_ignores_short ==
    /\ pc = "Idle"
    /\ LET write_buf == GetRegistryRequest(new_id)
       IN  \E written_len \in 0..Len(write_buf) :
              /\ sent' = Slice(write_buf, 0, written_len)
              /\ pc' = "AwaitingResponse"
              /\ result' = result
    /\ UNCHANGED <<new_id, incoming, buffer, prev_buffer, last, dispatched>>
    /\ UNCHANGED <<feedVars, codecVars>>

\* stream.write(&write_buf)? accepts written_len bytes; anything short of all is an error
WriteRequest ==
    /\ pc = "Idle"
    /\ LET write_buf == GetRegistryRequest(new_id)
       IN  \E written_len \in 0..Len(write_buf) :
              /\ sent' = Slice(write_buf, 0, written_len)
              /\ IF Len(write_buf) # written_len
                 THEN /\ pc' = "Failed"
                      /\ result' = [kind |-> "Err", err |-> "ShortWrite"]
                 ELSE /\ pc' = "AwaitingResponse"
                      /\ result' = result
    /\ UNCHANGED <<new_id, incoming, buffer, prev_buffer, last, dispatched>>
    /\ UNCHANGED <<feedVars, codecVars>>

\* stream.read(&mut read_buf)? fails with an I/O error
ReadIoError ==
    /\ pc = "AwaitingResponse"
    /\ pc' = "Failed"
    /\ result' = [kind |-> "Err", err |-> "Io"]
    /\ UNCHANGED <<new_id, incoming, sent, buffer, prev_buffer, last, dispatched>>
    /\ UNCHANGED <<feedVars, codecVars>>

\* The one stream.read of get_registry and WlMessageIter::new(read_buf[..read_len]).
\* A blocking read returns whatever has arrived, at least one byte unless the
\* compositor has nothing (more) to send and closed: then it returns 0.
ReadResponse ==
    /\ pc = "AwaitingResponse"
    /\ \E read_len \in 0..Min(READ_BUF_LEN, Len(incoming)) :
          /\ (read_len = 0) <=> (incoming = <<>>)
          /\ buffer' = Slice(incoming, 0, read_len)
          /\ incoming' = Slice(incoming, read_len, Len(incoming))
    /\ pc' = "Draining"
    /\ UNCHANGED <<new_id, sent, prev_buffer, last, dispatched, result>>
    /\ UNCHANGED <<feedVars, codecVars>>

\* One iteration of the loop: event_iter.next(), then break or dispatch
DrainStep ==
    /\ pc = "Draining"
    /\ LET r == WlMessageIter_next(buffer)
           d == Dispatch(r.msg)
       IN  /\ prev_buffer' = buffer
           /\ buffer' = r.buffer
           /\ last' = [some |-> r.some, called |-> TRUE, msg |-> r.msg]
           /\ IF ~r.some
              THEN /\ pc' = "Done"
                   /\ result' = [kind |-> "Ok", err |-> ""]
                   /\ dispatched' = dispatched
              ELSE /\ dispatched' = Append(dispatched,
                                      [object_id |-> r.msg.header.object_id,
                                       opcode    |-> r.msg.header.opcode,
                                       data      |-> r.msg.data,
                                       handler   |-> d.handler,
                                       kind      |-> d.kind,
                                       err       |-> d.err,
                                       context   |-> DispatchErrorContext(r.msg)])
                   /\ CASE d.kind = "Ok"  -> pc' = "Draining" /\ result' = result
                        [] d.kind = "Err" -> pc' = "Failed"
                                             /\ result' = [kind |-> "Err", err |-> d.err]
                        [] OTHER          -> pc' = "Panicked"
                                             /\ result' = [kind |-> "Panic", err |-> d.err]
    /\ UNCHANGED <<new_id, incoming, sent>>
    /\ UNCHANGED <<feedVars, codecVars>>

Next == WriteIoError \/ WriteRequest \/ ReadIoError \/ ReadResponse \/ DrainStep

Spec == Init /\ [][Next]_vars

---------------------------------------------------------------------------
(* Feed harness: one encoded message appended to a WlMessageIter's buffer  *)
(* one byte at a time, next() called after every append                    *)

SmallBytes == {0, 255}

RECURSIVE SeqsUpTo(_, _)
SeqsUpTo(S, n) ==
    IF n = 0 THEN { <<>> }
    ELSE LET shorter == SeqsUpTo(S, n - 1)
         IN  shorter \cup { Append(s, b) : s \in shorter, b \in S }

SmallPayloads == SeqsUpTo(SmallBytes, MaxPayloadLen)

FeedMessages ==
    { WlMessage_into_bytes(WlMessage_new(o, op, p)) :
          o \in {1, 2}, op \in {0, 1}, p \in SmallPayloads }

DriverIdle ==
    /\ pc = "Idle" /\ new_id = 1 /\ incoming = <<>> /\ sent = <<>>
    /\ dispatched = <<>> /\ result = NoResult

IterIdle == buffer = <<>> /\ prev_buffer = <<>> /\ last = NoLast

InitFeed ==
    /\ DriverIdle
    /\ IterIdle
    /\ feed_src \in FeedMessages
    /\ fed = 0
    /\ yielded = 0
    /\ CodecIdle

\* buffer.push(byte); next()
FeedByte ==
    /\ fed < Len(feed_src)
    /\ LET appended == Append(buffer, feed_src[fed + 1])
           r == WlMessageIter_next(appended)
       IN  /\ prev_buffer' = appended
           /\ buffer' = r.buffer
           /\ last' = [some |-> r.some, called |-> TRUE, msg |-> r.msg]
           /\ yielded' = yielded + (IF r.some THEN 1 ELSE 0)
    /\ fed' = fed + 1
    /\ UNCHANGED <<pc, new_id, incoming, sent, dispatched, result, feed_src>>
    /\ UNCHANGED codecVars

NextFeed == FeedByte

SpecFeed == InitFeed /\ [][NextFeed]_vars

---------------------------------------------------------------------------
(* Codec harness: an input is drawn, encoded, and the encoding decoded *)

TextBytes == {0, 97, 98}

Texts == SeqsUpTo(TextBytes, MaxTextLen)

\* the largest payload whose total length still fits the 16-bit length field
MaxEnvelopePayload == U16_MODULUS - 1 - WL_MESSAGE_HEADER_LEN

Zeros(n) == [i \in 1..n |-> 0]

EnvelopePayloads ==
    SmallPayloads \cup { Zeros(MaxEnvelopePayload), Zeros(MaxEnvelopePayload + 1) }

\* bytes that follow the message in the buffer handed to the decoder
Trailings == { <<>>, <<9>>, <<9, 8, 7, 6>> }

StringInputs ==
    { [kind |-> "string", object_id |-> 0, opcode |-> 0, bytes |-> s, trailing |-> <<>>] :
          s \in Texts }

EnvelopeInputs ==
    { [kind |-> "envelope", object_id |-> o, opcode |-> op, bytes |-> p, trailing |-> t] :
          o \in {0, 1, 2147483647}, op \in {0, 1, 65535},
          p \in EnvelopePayloads, t \in Trailings }

InitCodec ==
    /\ DriverIdle
    /\ IterIdle
    /\ FeedIdle
    /\ \/ codec_in \in StringInputs
       \/ codec_in \in EnvelopeInputs
    /\ codec_wire = <<>>
    /\ codec_out = Err("")
    /\ codec_step = "drawn"

\* Vec::<u8>::from(WlString::from(text))
EncodeString ==
    /\ codec_step = "drawn"
    /\ codec_in.kind = "string"
    /\ codec_wire' = WlString_into_bytes(WlString_from(codec_in.bytes))
    /\ codec_step' = "encoded"
    /\ UNCHANGED <<codec_in, codec_out>>
    /\ UNCHANGED <<drvVars, feedVars>>

\* WlString::try_from(&wire[..])
DecodeString ==
    /\ codec_step = "encoded"
    /\ codec_in.kind = "string"
    /\ codec_out' = WlString_try_from(codec_wire)
    /\ codec_step' = "decoded"
    /\ UNCHANGED <<codec_in, codec_wire>>
    /\ UNCHANGED <<drvVars, feedVars>>

\* Vec::<u8>::from(WlMessage::new(object_id, opcode, payload)), then the trailing bytes
EncodeEnvelope ==
    /\ codec_step = "drawn"
    /\ codec_in.kind = "envelope"
    /\ codec_wire' =
           WlMessage_into_bytes(
               WlMessage_new(codec_in.object_id, codec_in.opcode, codec_in.bytes))
           \o codec_in.trailing
    /\ codec_step' = "encoded"
    /\ UNCHANGED <<codec_in, codec_out>>
    /\ UNCHANGED <<drvVars, feedVars>>

\* WlMessage::try_from(&wire[..])
DecodeEnvelope ==
    /\ codec_step = "encoded"
    /\ codec_in.kind = "envelope"
    /\ codec_out' = WlMessage_try_from(codec_wire)
    /\ codec_step' = "decoded"
    /\ UNCHANGED <<codec_in, codec_wire>>
    /\ UNCHANGED <<drvVars, feedVars>>

NextCodec == EncodeString \/ DecodeString \/ EncodeEnvelope \/ DecodeEnvelope

SpecCodec == InitCodec /\ [][NextCodec]_vars

---------------------------------------------------------------------------
(* Wire harness: event payloads as the compositor lays them out, raw wire  *)
(* buffers, and array contents; each is drawn, then encoded and decoded    *)

\* A protocol string as the compositor writes it, the padding bytes being pad
ServerStringPadded(s, pad) ==
    LET unpadded == s \o <<0>>
    IN  u32_to_ne_bytes(Len(unpadded)) \o unpadded
            \o [i \in 1..(roundup_4(Len(unpadded)) - Len(unpadded)) |-> pad]

\* wl_display.error payload: object_id(4) || code(4) || message(string)
ErrorEventPayload(object_id, code, message) ==
    u32_to_ne_bytes(object_id) \o u32_to_ne_bytes(code) \o ServerString(message)

\* wl_registry.global payload: name(4) || interface(string) || version(4)
GlobalEventPayload(name, interface, version, pad) ==
    u32_to_ne_bytes(name) \o ServerStringPadded(interface, pad) \o u32_to_ne_bytes(version)

Text_oom == <<111, 111, 109>>
Text_wl_compositor == <<119, 108, 95, 99, 111, 109, 112, 111, 115, 105, 116, 111, 114>>

ZeroFree(s) == \A i \in 1..Len(s) : s[i] # 0

ErrorEventInputs ==
    { [kind |-> "error_event", object_id |-> o, code |-> c, text |-> m] :
          o \in {0, 1, 2, 3, 4, 7}, c \in {0, 1, 2, 3, 4, 9}, m \in {<<>>, Text_oom} }

GlobalEventInputs ==
    { [kind |-> "global_event", name |-> n, text |-> s, version |-> v, pad |-> p] :
          n \in {1, 3}, s \in { x \in Texts : ZeroFree(x) } \cup {Text_wl_compositor},
          v \in {4, 1}, p \in {0, 255} }

WireBytes == {0, 97}

\* buffers too short for a length prefix, and a prefix followed by some bytes
WireBuffers ==
    { b \in SeqsUpTo(WireBytes, WL_STRING_PREFIX_LEN - 1) : TRUE }
        \cup { u32_to_ne_bytes(n) \o rest :
                   n \in 0..MaxWirePrefix, rest \in SeqsUpTo(WireBytes, MaxWireRest) }

StringWireInputs == { [kind |-> "string_wire", bytes |-> b] : b \in WireBuffers }
ArrayWireInputs  == { [kind |-> "array_wire",  bytes |-> b] : b \in WireBuffers }
ArrayInputs ==
    { [kind |-> "array", bytes |-> b] : b \in SeqsUpTo(WireBytes, MaxArrayLen) }
AlignInputs == { [kind |-> "align", number |-> n] : n \in 0..MaxAlignArg }

InitWire ==
    /\ DriverIdle
    /\ IterIdle
    /\ FeedIdle
    /\ \/ codec_in \in ErrorEventInputs
       \/ codec_in \in GlobalEventInputs
       \/ codec_in \in StringWireInputs
       \/ codec_in \in ArrayWireInputs
       \/ codec_in \in ArrayInputs
       \/ codec_in \in AlignInputs
    /\ codec_wire = <<>>
    /\ codec_out = Err("")
    /\ codec_step = "drawn"

\* the compositor serialises a wl_display.error event
EncodeErrorEvent ==
    /\ codec_step = "drawn"
    /\ codec_in.kind = "error_event"
    /\ codec_wire' = ErrorEventPayload(codec_in.object_id, codec_in.code, codec_in.text)
    /\ codec_step' = "encoded"
    /\ UNCHANGED <<codec_in, codec_out>>
    /\ UNCHANGED <<drvVars, feedVars>>

\* WlDisplayError::try_from(buf)
DecodeErrorEvent ==
    /\ codec_step = "encoded"
    /\ codec_in.kind = "error_event"
    /\ codec_out' = WlDisplayError_try_from(codec_wire)
    /\ codec_step' = "decoded"
    /\ UNCHANGED <<codec_in, codec_wire>>
    /\ UNCHANGED <<drvVars, feedVars>>

\* the compositor serialises a wl_registry.global event
EncodeGlobalEvent ==
    /\ codec_step = "drawn"
    /\ codec_in.kind = "global_event"
    /\ codec_wire' = GlobalEventPayload(codec_in.name, codec_in.text,
                                        codec_in.version, codec_in.pad)
    /\ codec_step' = "encoded"
    /\ UNCHANGED <<codec_in, codec_out>>
    /\ UNCHANGED <<drvVars, feedVars>>

\* WlRegistryGlobal::try_from(buf)
DecodeGlobalEvent ==
    /\ codec_step = "encoded"
    /\ codec_in.kind = "global_event"
    /\ codec_out' = WlRegistryGlobal_try_from(codec_wire)
    /\ codec_step' = "decoded"
    /\ UNCHANGED <<codec_in, codec_wire>>
    /\ UNCHANGED <<drvVars, feedVars>>

\* WlString::try_from(buf) on a buffer as received
DecodeStringWire ==
    /\ codec_step = "drawn"
    /\ codec_in.kind = "string_wire"
    /\ codec_wire' = codec_in.bytes
    /\ codec_out' = WlString_try_from(codec_in.bytes)
    /\ codec_step' = "decoded"
    /\ UNCHANGED codec_in
    /\ UNCHANGED <<drvVars, feedVars>>

\* WlArray::try_from(buf) on a buffer as received
DecodeArrayWire ==
    /\ codec_step = "drawn"
    /\ codec_in.kind = "array_wire"
    /\ codec_wire' = codec_in.bytes
    /\ codec_out' = WlArray_try_from(codec_in.bytes)
    /\ codec_step' = "decoded"
    /\ UNCHANGED codec_in
    /\ UNCHANGED <<drvVars, feedVars>>

\* Vec::<u8>::from(WlArray::new(content))
EncodeArray ==
    /\ codec_step = "drawn"
    /\ codec_in.kind = "array"
    /\ codec_wire' = WlArray_into_bytes(WlArray_new(codec_in.bytes))
    /\ codec_step' = "encoded"
    /\ UNCHANGED <<codec_in, codec_out>>
    /\ UNCHANGED <<drvVars, feedVars>>

\* WlArray::try_from(&wire[..])
DecodeArray ==
    /\ codec_step = "encoded"
    /\ codec_in.kind = "array"
    /\ codec_out' = WlArray_try_from(codec_wire)
    /\ codec_step' = "decoded"
    /\ UNCHANGED <<codec_in, codec_wire>>
    /\ UNCHANGED <<drvVars, feedVars>>

\* roundup_4(number)
ApplyRoundup4 ==
    /\ codec_step = "drawn"
    /\ codec_in.kind = "align"
    /\ codec_out' = Ok(roundup_4(codec_in.number))
    /\ codec_step' = "decoded"
    /\ UNCHANGED <<codec_in, codec_wire>>
    /\ UNCHANGED <<drvVars, feedVars>>

NextWire ==
    \/ EncodeErrorEvent \/ DecodeErrorEvent
    \/ EncodeGlobalEvent \/ DecodeGlobalEvent
    \/ DecodeStringWire \/ DecodeArrayWire
    \/ EncodeArray \/ DecodeArray
    \/ ApplyRoundup4

SpecWire == InitWire /\ [][NextWire]_vars

---------------------------------------------------------------------------
(* Properties *)

\* The header fields and the declared total length at the front of a buffer
\* that holds at least WL_MESSAGE_HEADER_LEN bytes
DeclaredObjectId(buf) == u32_from_ne_bytes(Slice(buf, 0, 4))
DeclaredOpcode(buf)   == u16_from_ne_bytes(Slice(buf, 4, 6))
DeclaredLen(buf)      == u16_from_ne_bytes(Slice(buf, 6, 8))

\* next() has too little to go on: no full header, or less than the header declares
Insufficient(buf) ==
    \/ Len(buf) < WL_MESSAGE_HEADER_LEN
    \/ DeclaredLen(buf) > Len(buf)

\* the buffer starts with a complete message
HoldsCompleteMessage(buf) ==
    /\ Len(buf) >= WL_MESSAGE_HEADER_LEN
    /\ DeclaredLen(buf) >= WL_MESSAGE_HEADER_LEN
    /\ DeclaredLen(buf) <= Len(buf)

\* C1: a call of next() on a buffer with fewer than 8 bytes, or with fewer bytes
\* than the header declares, returns no message and leaves the buffer as it was.
C1_InsufficientKeepsBuffer ==
    (last.called /\ Insufficient(prev_buffer))
        => (~last.some /\ buffer = prev_buffer)

\* C2: feeding an encoded message one byte at a time, next() after each byte:
\* no message while a byte is missing, exactly one (the original) once all are in.
C2_FeedYieldsExactlyOne ==
    (feed_src # <<>>)
        => /\ (fed < Len(feed_src)) => (yielded = 0)
           /\ (fed = Len(feed_src))
                  => (yielded = 1 /\ last.some /\ WlMessage_into_bytes(last.msg) = feed_src)

\* C3: when the buffer starts with a complete message, next() returns it (header
\* fields and payload bytes [8, total_length)) and removes exactly total_length
\* bytes from the front; what follows stays, unchanged and in order.
C3_CompleteMessageExtracted ==
    (last.called /\ HoldsCompleteMessage(prev_buffer))
        => LET total_length == DeclaredLen(prev_buffer)
           IN  /\ last.some
               /\ last.msg.header.object_id = DeclaredObjectId(prev_buffer)
               /\ last.msg.header.opcode = DeclaredOpcode(prev_buffer)
               /\ last.msg.header.size = total_length
               /\ last.msg.data = Slice(prev_buffer, WL_MESSAGE_HEADER_LEN, total_length)
               /\ buffer = Slice(prev_buffer, total_length, Len(prev_buffer))

\* C3 witness: a message was extracted from a buffer that held more after it
C3_Witness ==
    /\ last.called
    /\ HoldsCompleteMessage(prev_buffer)
    /\ Len(prev_buffer) > DeclaredLen(prev_buffer)
    /\ last.some
    /\ buffer # <<>>

\* C4: a text without a zero byte, encoded as a protocol string and decoded
\* again, decodes successfully to exactly that text.
C4_StringRoundTrip ==
    (/\ codec_step = "decoded"
     /\ codec_in.kind = "string"
     /\ \A i \in 1..Len(codec_in.bytes) : codec_in.bytes[i] # 0)
        => (codec_out.ok /\ codec_out.val.data = codec_in.bytes)

\* C5: an envelope with a payload of at most 65527 bytes, encoded and decoded
\* again, gives back the same object id, opcode and payload.
C5_EnvelopeRoundTrip ==
    (/\ codec_step = "decoded"
     /\ codec_in.kind = "envelope"
     /\ codec_in.trailing = <<>>
     /\ Len(codec_in.bytes) <= MaxEnvelopePayload)
        => /\ codec_out.ok
           /\ codec_out.val.header.object_id = codec_in.object_id
           /\ codec_out.val.header.opcode = codec_in.opcode
           /\ codec_out.val.data = codec_in.bytes

\* C5 witness: the largest payload the length field can describe went round
C5_Witness ==
    /\ codec_step = "decoded"
    /\ codec_in.kind = "envelope"
    /\ codec_in.trailing = <<>>
    /\ Len(codec_in.bytes) = MaxEnvelopePayload
    /\ codec_in.opcode = 65535
    /\ codec_out.ok

\* C6: the length field of every message built by WlMessage::new and encoded is
\* 8 + payload.len(); it never wraps around.
C6_DeclaredLengthExact ==
    (codec_step \in {"encoded", "decoded"} /\ codec_in.kind = "envelope")
        => DeclaredLen(codec_wire) = WL_MESSAGE_HEADER_LEN + Len(codec_in.bytes)

\* C7: decoding a buffer that holds a complete message and then more bytes gives
\* a payload of exactly bytes [8, total_length), nothing of what follows.
C7_DecodeStopsAtTotalLength ==
    (/\ codec_step = "decoded"
     /\ codec_in.kind = "envelope"
     /\ Len(codec_in.bytes) <= MaxEnvelopePayload
     /\ codec_in.trailing # <<>>)
        => /\ codec_out.ok
           /\ codec_out.val.data =
                  Slice(codec_wire, WL_MESSAGE_HEADER_LEN, DeclaredLen(codec_wire))

\* The object ids this client knows an interface for
KnownObjects == {WlObjectId_Display, WlObjectId_Registry}

\* C8: a dispatched message whose object id is neither the root session object
\* nor the registry ends in an UnroutableObject error and the driver in Failed:
\* it is not ignored and the process does not panic.
C8_UnknownObjectFails ==
    \A i \in 1..Len(dispatched) :
        (dispatched[i].object_id \notin KnownObjects)
            => /\ dispatched[i].kind = "Err"
               /\ dispatched[i].err = "UnroutableObject"
               /\ pc = "Failed"
               /\ result = [kind |-> "Err", err |-> "UnroutableObject"]

\* C9: a dispatched message from the root session object or the registry whose
\* opcode is neither 0 nor 1 fails with InvalidOpcode: no handler is invoked, no
\* panic, no success, and the driver returns that error.
C9_UnknownOpcodeFails ==
    \A i \in 1..Len(dispatched) :
        (dispatched[i].object_id \in KnownObjects /\ dispatched[i].opcode \notin {0, 1})
            => /\ dispatched[i].kind = "Err"
               /\ dispatched[i].err = "InvalidOpcode"
               /\ dispatched[i].handler = "none"
               /\ i = Len(dispatched)
               /\ pc = "Failed"
               /\ result = [kind |-> "Err", err |-> "InvalidOpcode"]

\* C9 witness: opcode 7 on the root session object, after an event that was handled
C9_Witness ==
    /\ Len(dispatched) = 2
    /\ dispatched[1].kind = "Ok"
    /\ dispatched[2].object_id = WlObjectId_Display
    /\ dispatched[2].opcode = 7
    /\ pc = "Failed"

\* C10: a root-session Error event (object id 1, opcode 0) is fatal whatever its
\* payload: its dispatch is an error, the driver is Failed, and it is the last
\* message dispatched.
C10_DisplayErrorIsFatal ==
    \A i \in 1..Len(dispatched) :
        (dispatched[i].object_id = WlObjectId_Display /\ dispatched[i].opcode = 0)
            => /\ dispatched[i].kind = "Err"
               /\ i = Len(dispatched)
               /\ pc = "Failed"
               /\ result.kind = "Err"
               /\ sent = GetRegistryRequest(new_id)

\* C10 witness: a decodable Error event was dispatched first, with another
\* message still buffered behind it
C10_Witness ==
    /\ Len(dispatched) = 1
    /\ dispatched[1].object_id = WlObjectId_Display
    /\ dispatched[1].opcode = 0
    /\ dispatched[1].err = "ProtocolFatal"
    /\ HoldsCompleteMessage(buffer)
    /\ pc = "Failed"

\* The smallest multiple of 4 that is not less than n
RoundUp4(n) == CHOOSE m \in n..(n + 3) : m % 4 = 0

\* The error kind a wl_display.error code value names
ErrorKindOf(code) ==
    CASE code = 0 -> "InvalidObject"
      [] code = 1 -> "InvalidMethod"
      [] code = 2 -> "NoMemory"
      [] code = 3 -> "ImplementationError"
      [] OTHER    -> "none"

\* C11: decoding an Error event payload object_id || code || message gives
\* object_id from the first word, the error kind from the second word and the
\* message from the string, for every object_id; handling it is ProtocolFatal.
C11_ErrorEventFields ==
    (/\ codec_step = "decoded"
     /\ codec_in.kind = "error_event"
     /\ codec_in.code \in 0..3)
        => /\ codec_out.ok
           /\ codec_out.val.object_id = codec_in.object_id
           /\ codec_out.val.code = ErrorKindOf(codec_in.code)
           /\ codec_out.val.message.data = codec_in.text
           /\ handle_wl_display_error(codec_wire).err = "ProtocolFatal"

\* C12: decoding an Error event fails with InvalidEnumValue exactly when the
\* code field is not one of 0, 1, 2, 3, whatever the object_id field holds.
C12_InvalidEnumExactlyOnCode ==
    (codec_step = "decoded" /\ codec_in.kind = "error_event")
        => ((~codec_out.ok /\ codec_out.err = "InvalidEnumValue")
                <=> (codec_in.code \notin 0..3))

\* C13: decoding a Global event payload gives the interface string as exactly
\* the content bytes before the terminator, whatever the padding bytes and the
\* fields after the string are.
C13_GlobalInterfaceExact ==
    (codec_step = "decoded" /\ codec_in.kind = "global_event")
        => /\ codec_out.ok
           /\ codec_out.val.interface.data = codec_in.text
           /\ Len(codec_out.val.interface.data) = Len(codec_in.text)

\* C13 witness: "wl_compositor" (13 bytes), name 1, version 4, decoded from a
\* payload whose padding bytes are not zero
C13_Witness ==
    /\ codec_step = "decoded"
    /\ codec_in.kind = "global_event"
    /\ codec_in.text = Text_wl_compositor
    /\ codec_in.name = 1
    /\ codec_in.version = 4
    /\ codec_in.pad = 255
    /\ codec_out.ok
    /\ Len(codec_out.val.interface.data) = 13

\* C14: decoding a Global event payload name || string || version gives name
\* from the first word and version from the word right after the string's
\* padded wire form, for every interface length.
C14_GlobalNameAndVersion ==
    (codec_step = "decoded" /\ codec_in.kind = "global_event")
        => /\ codec_out.ok
           /\ codec_out.val.name = codec_in.name
           /\ codec_out.val.version = codec_in.version

\* C15: the bytes the driver writes for GetRegistry are object id 1 (4 bytes),
\* opcode 1 (2 bytes), length 12 (2 bytes) and the new id (4 bytes): 12 bytes,
\* of which a short write is a prefix.
C15_GetRegistryBytes ==
    LET expected == <<1, 0, 0, 0, 1, 0, 12, 0, new_id, 0, 0, 0>>
    IN  /\ sent = Slice(expected, 0, Len(sent))
        /\ (pc \in {"AwaitingResponse", "Draining", "Done", "Panicked"})
               => (sent = expected /\ Len(sent) = 12)

\* C15 witness: the request for new id 2 was written in full
C15_Witness ==
    /\ pc = "AwaitingResponse"
    /\ new_id = 2
    /\ Len(sent) = 12

\* C16: a text of c bytes is encoded as a prefix equal to c + 1, the content, a
\* zero terminator and zero padding; content, terminator and padding together
\* are as long as the smallest multiple of 4 not less than c + 1.
C16_StringEncoding ==
    (codec_step \in {"encoded", "decoded"} /\ codec_in.kind = "string")
        => LET c == Len(codec_in.bytes)
           IN  /\ Len(codec_wire) = WL_STRING_PREFIX_LEN + RoundUp4(c + 1)
               /\ u32_from_ne_bytes(Slice(codec_wire, 0, 4)) = c + 1
               /\ Slice(codec_wire, 4, 4 + c) = codec_in.bytes
               /\ \A i \in (4 + c + 1)..Len(codec_wire) : codec_wire[i] = 0

\* the length prefix of a wire buffer and the bytes that follow it
WirePrefix(buf) == u32_from_ne_bytes(Slice(buf, 0, 4))
WireRest(buf)   == Slice(buf, 4, Len(buf))

\* C17: a protocol string whose prefix is n is decoded only if roundup4(n)
\* bytes follow the prefix; with fewer it is rejected as truncated.
C17_StringNeedsPaddedLength ==
    (/\ codec_step = "decoded"
     /\ codec_in.kind = "string_wire"
     /\ Len(codec_in.bytes) >= WL_STRING_PREFIX_LEN
     /\ Len(WireRest(codec_in.bytes)) < RoundUp4(WirePrefix(codec_in.bytes)))
        => (~codec_out.ok /\ codec_out.err = "TruncatedBuffer")

\* C18: with n bytes available after a prefix of n, the decoder looks for a zero
\* in those n bytes: if there is one, the content is the bytes strictly before
\* the first zero (no zero in it, shorter than n); if none, MissingTerminator.
C18_StringTerminatorScan ==
    (/\ codec_step = "decoded"
     /\ codec_in.kind = "string_wire"
     /\ Len(codec_in.bytes) >= WL_STRING_PREFIX_LEN
     /\ Len(WireRest(codec_in.bytes)) >= WirePrefix(codec_in.bytes))
        => LET n == WirePrefix(codec_in.bytes)
               first_n == Slice(WireRest(codec_in.bytes), 0, n)
           IN  IF \E i \in 1..n : first_n[i] = 0
               THEN /\ codec_out.ok
                    /\ \E k \in 0..(n - 1) :
                          /\ first_n[k + 1] = 0
                          /\ \A j \in 1..k : first_n[j] # 0
                          /\ codec_out.val.data = Slice(first_n, 0, k)
                    /\ ZeroFree(codec_out.val.data)
                    /\ Len(codec_out.val.data) < n
               ELSE ~codec_out.ok /\ codec_out.err = "MissingTerminator"

\* C18 witness: a string decoded from a section with content and two zeros
C18_Witness ==
    /\ codec_step = "decoded"
    /\ codec_in.kind = "string_wire"
    /\ Len(codec_in.bytes) >= WL_STRING_PREFIX_LEN
    /\ WirePrefix(codec_in.bytes) = 4
    /\ WireRest(codec_in.bytes) = <<97, 0, 97, 0>>
    /\ codec_out.ok
    /\ codec_out.val.data = <<97>>

\* C19: every byte sequence, built into a WlArray, encoded and decoded again,
\* decodes successfully and as_slice() of the result is that sequence.
C19_ArrayRoundTrip ==
    (codec_step = "decoded" /\ codec_in.kind = "array")
        => (codec_out.ok /\ WlArray_as_slice(codec_out.val) = codec_in.bytes)

\* C19 witness: a 5-byte content with a zero byte in it went round
C19_Witness ==
    /\ codec_step = "decoded"
    /\ codec_in.kind = "array"
    /\ codec_in.bytes = <<97, 0, 97, 0, 97>>
    /\ codec_out.ok

\* C20: an array of c bytes is encoded as a prefix equal to c, the c content
\* bytes and padding to the next multiple of 4, 4 + roundup4(c) bytes in all;
\* decoding a buffer shorter than 4 + roundup4(prefix) fails.
C20_ArrayEncoding ==
    /\ (codec_step \in {"encoded", "decoded"} /\ codec_in.kind = "array")
           => LET c == Len(codec_in.bytes)
              IN  /\ Len(codec_wire) = WL_ARRAY_PREFIX_LEN + RoundUp4(c)
                  /\ WirePrefix(codec_wire) = c
                  /\ Slice(codec_wire, 4, 4 + c) = codec_in.bytes
    /\ (/\ codec_step = "decoded"
        /\ codec_in.kind = "array_wire"
        /\ \/ Len(codec_in.bytes) < WL_ARRAY_PREFIX_LEN
           \/ Len(WireRest(codec_in.bytes)) < RoundUp4(WirePrefix(codec_in.bytes)))
           => ~codec_out.ok

\* C20 witness: a buffer that holds the 5 content bytes its prefix declares but
\* not the padding was rejected
C20_Witness ==
    /\ codec_step = "decoded"
    /\ codec_in.kind = "array_wire"
    /\ Len(codec_in.bytes) = WL_ARRAY_PREFIX_LEN + 5
    /\ WirePrefix(codec_in.bytes) = 5
    /\ ~codec_out.ok


\* C21: for every size n in range, roundup_4(n) is a multiple of 4, at least n
\* and less than n + 4; roundup_4(0) = 0, roundup_4(5) = 8, roundup_4(8) = 8,
\* roundup_4(9) = 12.
C21_RoundUpAligned ==
    (codec_step = "decoded" /\ codec_in.kind = "align")
        => LET n == codec_in.number
               r == codec_out.val
           IN  /\ codec_out.ok
               /\ r >= n
               /\ r % 4 = 0
               /\ r < n + 4
               /\ (n = 0) => (r = 0)
               /\ (n = 5) => (r = 8)
               /\ (n = 8) => (r = 8)
               /\ (n = 9) => (r = 12)

\* C21 witness: the helper was applied to 9 and gave 12
C21_Witness ==
    /\ codec_step = "decoded"
    /\ codec_in.kind = "align"
    /\ codec_in.number = 9
    /\ codec_out = Ok(12)


\* C22: a write that accepts fewer bytes than the request holds is resumed at the
\* unsent offset: the driver never leaves Idle with part of the request unsent
\* unless the transport reported an I/O error.
C22_ShortWriteRetried ==
    (pc # "Idle" /\ Len(sent) < Len(GetRegistryRequest(new_id)))
        => result = [kind |-> "Err", err |-> "Io"]

\* The driver's positions: Draining is the receive loop inside AwaitingResponse
DriverStates == {"Idle", "AwaitingResponse", "Draining", "Done", "Failed"}

\* C23: the driver is always in Idle, AwaitingResponse, Done or Failed; Done is a
\* success and Failed an error; a ProtocolFatal or UnroutableObject outcome puts
\* it in Failed and is the last dispatch; Done and Failed are never left and
\* nothing is dispatched after them.
C23_DriverStateMachine ==
    /\ [](/\ pc \in DriverStates
          /\ (pc = "Done") <=> (result.kind = "Ok")
          /\ (pc = "Failed") <=> (result.kind = "Err")
          /\ \A i \in 1..Len(dispatched) :
                 (dispatched[i].err \in {"ProtocolFatal", "UnroutableObject"})
                     => (pc = "Failed" /\ i = Len(dispatched)))
    /\ [][(pc \in {"Done", "Failed"}) => (pc' = pc /\ dispatched' = dispatched)]_vars

\* The bytes of a dispatched message as they stood in the stream
MessageBytes(d) == WlMessage_into_bytes(WlMessage_new(d.object_id, d.opcode, d.data))

RECURSIVE DispatchedBytes(_)
DispatchedBytes(log) ==
    IF log = <<>> THEN <<>> ELSE MessageBytes(Head(log)) \o DispatchedBytes(Tail(log))

\* C24: messages are dispatched in arrival order, each once: the read takes a
\* prefix of what the compositor sent, and every dispatch appends to the log the
\* message that stood at the front of the unconsumed bytes and removes exactly
\* that message from them.
C24_DispatchInArrivalOrder ==
    [][/\ (pc = "AwaitingResponse" /\ pc' = "Draining")
              => (buffer' \o incoming' = incoming /\ dispatched' = dispatched)
       /\ (dispatched' # dispatched)
              => /\ Len(dispatched') = Len(dispatched) + 1
                 /\ SubSeq(dispatched', 1, Len(dispatched)) = dispatched
                 /\ MessageBytes(dispatched'[Len(dispatched')]) \o buffer' = buffer
                 /\ incoming' = incoming]_vars

\* C24 witness: a registry Global and then a root-session DeleteId were
\* dispatched, in the order they arrived, and nothing is left
C24_Witness ==
    /\ Len(dispatched) = 2
    /\ dispatched[1].handler = "wl_registry_global"
    /\ dispatched[2].handler = "wl_display_delete_id"
    /\ pc = "Done"
    /\ incoming = <<>>

\* the buffer starts with a frame whose declared length is shorter than a header
DeclaresLessThanHeader(buf) ==
    /\ Len(buf) >= WL_MESSAGE_HEADER_LEN
    /\ DeclaredLen(buf) < WL_MESSAGE_HEADER_LEN

\* C25: no codec error is swallowed: a dispatch that ends in an error makes that
\* error the driver's result, and the driver does not report success when the
\* receive loop stopped at a fully received message it could not decode.
C25_NoCodecErrorSwallowed ==
    /\ \A i \in 1..Len(dispatched) :
           (dispatched[i].kind = "Err")
               => /\ i = Len(dispatched)
                  /\ pc = "Failed"
                  /\ result = [kind |-> "Err", err |-> dispatched[i].err]
    /\ (pc = "Done") => ~DeclaresLessThanHeader(prev_buffer)

DisplayHandlers == {"wl_display_error", "wl_display_delete_id"}
RegistryHandlers == {"wl_registry_global", "wl_registry_global_remove"}

\* C26: dispatch routes by (object id, opcode): object 1 with opcode 0 reaches the
\* Error handler and with opcode 1 the DeleteId handler, the registry object with
\* opcode 0 the Global handler and with opcode 1 the GlobalRemove handler; a
\* handler is only ever reached by a message of its own interface's object.
C26_RoutedByObjectAndOpcode ==
    \A i \in 1..Len(dispatched) :
        LET d == dispatched[i]
        IN  /\ (d.object_id = WlObjectId_Display /\ d.opcode = 0)
                   => d.handler = "wl_display_error"
            /\ (d.object_id = WlObjectId_Display /\ d.opcode = 1)
                   => d.handler = "wl_display_delete_id"
            /\ (d.object_id = WlObjectId_Registry /\ d.opcode = 0)
                   => d.handler = "wl_registry_global"
            /\ (d.object_id = WlObjectId_Registry /\ d.opcode = 1)
                   => d.handler = "wl_registry_global_remove"
            /\ (d.handler \in DisplayHandlers) => (d.object_id = WlObjectId_Display)
            /\ (d.handler \in RegistryHandlers) => (d.object_id = WlObjectId_Registry)

\* C26 witness: opcode 1 reached GlobalRemove on the registry and then DeleteId
\* on the root session object
C26_Witness ==
    /\ Len(dispatched) = 2
    /\ dispatched[1].opcode = 1
    /\ dispatched[1].handler = "wl_registry_global_remove"
    /\ dispatched[2].opcode = 1
    /\ dispatched[2].handler = "wl_display_delete_id"

\* C27: the driver does not reach Done with nothing dispatched while what it
\* received is less than one message (no bytes, part of a header, or fewer bytes
\* than the header declares).
C27_ReadsUntilOneMessage ==
    ~(pc = "Done" /\ dispatched = <<>> /\ Insufficient(prev_buffer))

SameMessage(a, b) ==
    /\ a.object_id = b.object_id
    /\ a.opcode = b.opcode
    /\ a.data = b.data

C30_IdZeroNeverLive ==
    /\ \A i \in 1..Len(dispatched) :
           (dispatched[i].object_id = 0)
               => /\ dispatched[i].handler = "none"
                  /\ dispatched[i].kind = "Err"
                  /\ pc = "Failed"
                  /\ result.kind = "Err"
    /\ (Len(sent) >= 4) => (DeclaredObjectId(sent) # 0)

\* C30 witness: the whole request went out and a message from object 0 came back
C30_Witness ==
    /\ Len(sent) = Len(GetRegistryRequest(new_id))
    /\ Len(dispatched) = 2
    /\ dispatched[1].kind = "Ok"
    /\ dispatched[2].object_id = 0
    /\ pc = "Failed"


\* C31: buffer_len is the length of the string's wire form, 4 bytes of prefix
\* plus content, terminator and padding (8 for "hi", 8 for the empty text), for
\* a WlString built from text and for one obtained by decoding.
C31_StringBufferLen ==
    (codec_in.kind = "string" /\ codec_step \in {"encoded", "decoded"})
        => /\ WlString_buffer_len(WlString_from(codec_in.bytes)) = Len(codec_wire)
           /\ WlString_buffer_len(WlString_from(codec_in.bytes))
                  = WL_STRING_PREFIX_LEN + RoundUp4(Len(codec_in.bytes) + 1)
           /\ (codec_step = "decoded" /\ codec_out.ok)
                  => WlString_buffer_len(codec_out.val) = Len(codec_wire)


\* C32: the error of every dispatch that fails carries the message's object id
\* and opcode, and for a ProtocolFatal outcome the decoded error record.
C32_ErrorCarriesContext ==
    \A i \in 1..Len(dispatched) :
        (dispatched[i].kind = "Err")
            => /\ dispatched[i].context.object_id = <<dispatched[i].object_id>>
               /\ dispatched[i].context.opcode = <<dispatched[i].opcode>>
               /\ (dispatched[i].err = "ProtocolFatal")
                      => (dispatched[i].context.record # <<>>)


\* C33: the whole request is written before anything is read: a read, a call of
\* next() or a dispatch happens only once all bytes of the request were
\* accepted, and a failed or incomplete write ends the driver with nothing read.
C33_WriteBeforeRead ==
    /\ []((\/ pc \in {"Draining", "Done", "Panicked"}
           \/ last.called
           \/ dispatched # <<>>
           \/ buffer # <<>>)
              => (sent = GetRegistryRequest(new_id)))
    /\ []((pc # "Idle" /\ sent # GetRegistryRequest(new_id))
              => (pc = "Failed" /\ ~last.called /\ buffer = <<>> /\ dispatched = <<>>))
    /\ [][(incoming' # incoming \/ buffer' # buffer)
              => (sent = GetRegistryRequest(new_id) /\ sent' = sent)]_vars

\* C33 witness: the response was read, after the full request had gone out
C33_Witness ==
    /\ pc = "Draining"
    /\ buffer # <<>>
    /\ ~last.called
    /\ sent = GetRegistryRequest(new_id)

\* C34: whenever a call of next() returns no message (fewer than 8 bytes, fewer
\* bytes than the header declares, or a frame that does not validate), the
\* buffer is empty after the call.
C34_NoMessageClearsBuffer ==
    (last.called /\ ~last.some) => (buffer = <<>>)

\* C34 witness: next() was called on a full header whose message was not yet
\* complete, and the partial bytes are gone
C34_Witness ==
    /\ last.called
    /\ ~last.some
    /\ Len(prev_buffer) >= WL_MESSAGE_HEADER_LEN
    /\ DeclaredLen(prev_buffer) > Len(prev_buffer)
    /\ buffer = <<>>

\* C35: a call of next() that returns a message shrinks the buffer by at least
\* 8 bytes, also for frames that declare fewer than 8 bytes (they return none);
\* hence the drain loop ends: every iteration after which the loop goes on has
\* made the buffer, a finite sequence, at least 8 bytes shorter.
C35_NextShrinksBuffer ==
    /\ []((last.called /\ last.some)
              => (Len(buffer) + WL_MESSAGE_HEADER_LEN <= Len(prev_buffer)))
    /\ [][(pc = "Draining" /\ pc' = "Draining")
              => (Len(buffer') + WL_MESSAGE_HEADER_LEN <= Len(buffer))]_vars

\* C35 witness: a message without payload was returned, the buffer shrank by
\* exactly 8 bytes, and the loop has ended
C35_Witness ==
    /\ last.called
    /\ last.some
    /\ Len(buffer) + WL_MESSAGE_HEADER_LEN = Len(prev_buffer)
    /\ pc \in {"Done", "Failed", "Panicked"}

\* C36: every message next() returns has header.size >= 8 and header.size equal
\* to 8 + data.len(); a header that declares fewer than 8 bytes yields none.
C36_ReturnedMessageWellFormed ==
    /\ (last.called /\ last.some)
           => /\ last.msg.header.size >= WL_MESSAGE_HEADER_LEN
              /\ last.msg.header.size = WL_MESSAGE_HEADER_LEN + Len(last.msg.data)
    /\ (last.called /\ DeclaresLessThanHeader(prev_buffer)) => ~last.some

\* C36 witness: after one message was returned and dispatched, next() met a
\* header declaring fewer than 8 bytes and returned none
C36_Witness ==
    /\ Len(dispatched) = 1
    /\ last.called
    /\ DeclaresLessThanHeader(prev_buffer)
    /\ ~last.some


\* C37: the id the request names for the new registry object is not the root
\* session object's id 1, it is the id the dispatcher maps to the registry
\* interface, and no event from that object reaches a root-session handler.
C37_RegistryIdMinted ==
    (Len(sent) = Len(GetRegistryRequest(new_id)))
        => LET minted == u32_from_ne_bytes(Slice(sent, WL_MESSAGE_HEADER_LEN, Len(sent)))
           IN  /\ minted # WlObjectId_Display
               /\ minted = WlObjectId_Registry
               /\ \A i \in 1..Len(dispatched) :
                      (dispatched[i].object_id = minted)
                          => (dispatched[i].handler \notin DisplayHandlers)

\* size <= data.len(), data.len() == roundup_4(size), as_slice gives size bytes
\* and buffer_size() is the length of the encoding
ArrayWellFormed(array) ==
    /\ array.size <= Len(array.data)
    /\ Len(array.data) = RoundUp4(array.size)
    /\ Len(WlArray_as_slice(array)) = array.size
    /\ WlArray_buffer_size(array) = Len(WlArray_into_bytes(array))

\* C38: every WlArray, built by WlArray::new or obtained by decoding, has
\* size <= data.len() and data.len() == roundup_4(size), so as_slice stays in
\* bounds and buffer_size() is the length of its encoding.
C38_ArrayInvariant ==
    /\ (codec_in.kind = "array" /\ codec_step \in {"encoded", "decoded"})
           => /\ ArrayWellFormed(WlArray_new(codec_in.bytes))
              /\ WlArray_buffer_size(WlArray_new(codec_in.bytes)) = Len(codec_wire)
    /\ (/\ codec_in.kind \in {"array", "array_wire"}
        /\ codec_step = "decoded"
        /\ codec_out.ok)
           => ArrayWellFormed(codec_out.val)

\* C38 witness: an array of 2 bytes was decoded from a buffer that held its
\* padding and one byte more
C38_Witness ==
    /\ codec_in.kind = "array_wire"
    /\ codec_step = "decoded"
    /\ codec_out.ok
    /\ codec_out.val.size = 2
    /\ Len(codec_wire) = WL_ARRAY_PREFIX_LEN + 5

===========================================================================
